---- MODULE Spec2Model ----
(***************************************************************************)
(* Model of aiobreaker's CircuitBreaker (src/aiobreaker/circuitbreaker.py). *)
(*                                                                         *)
(* The controller is circuitbreaker.py.  The state variants (Closed, Open, *)
(* Half-Open), the Storage cells and the listener loop live in modules     *)
(* that circuitbreaker.py imports (.state, .storage, .listener); their     *)
(* behaviour is taken from spec.md sections 4.1, 4.3 and 4.4.              *)
(*                                                                         *)
(* Every controller operation is one action.  An operation is computed on  *)
(* a record m ("the machine") holding the cells the operation may write:   *)
(*   st    Storage's state tag            cnt   Storage's failure counter  *)
(*   cs    tag of the cached state object el    time since its Open entry  *)
(*   err   the error propagating out of the operation (NoErr when none)    *)
(*   trace what the operation did, in order (events, see Ev)               *)
(*   fn    what the wrapped function does when invoked ("ok" or the type   *)
(*         of the error it raises)                                         *)
(*   raiseAt  which listener notification of this operation raises (0:     *)
(*         none): listeners are foreign code that may raise at any call    *)
(*   sfail whether Storage's state write fails                             *)
(*                                                                         *)
(* Specifications:                                                         *)
(*   Spec           the operations, one caller at a time                   *)
(*   SpecFault      Spec and operations whose Storage write fails          *)
(*   SpecDecorated  calls handed a function the decorator wrapped          *)
(*   SpecThreads    callers in parallel, operations taken step by step     *)
(*   SpecMutators   SpecThreads and the configuration mutators             *)
(*   SpecFair       SpecThreads' calls under fair scheduling               *)
(***************************************************************************)
EXTENDS Integers, Sequences, FiniteSets, TLC

\* ---------------------------------------------------------------- bounds
MaxFailMax == 2
MaxTimeout == 2
MaxListeners == 2
MaxExcluded == 1

\* ------------------------------------------------------------ vocabulary
CLOSED == "closed"
OPEN == "open"
HALF_OPEN == "half-open"
CircuitBreakerState == {CLOSED, OPEN, HALF_OPEN}

\* listeners that can be registered
ListenerIds == {"L1", "L2"}

\* exception types: SubBizError <: BizError <: Exception, SysError <: Exception
ExceptionTypes == {"Exception", "SysError", "BizError", "SubBizError"}
RaisedTypes == {"SysError", "BizError", "SubBizError"}
ExcludableTypes == {"BizError"}
Base(t) == CASE t = "SubBizError" -> "BizError"
             [] t = "BizError" -> "Exception"
             [] t = "SysError" -> "Exception"
             [] OTHER -> "object"

RECURSIVE issubclass(_, _)
issubclass(t, u) == IF t = u THEN TRUE
                    ELSE IF t = "object" THEN FALSE
                    ELSE issubclass(Base(t), u)

\* callers: a1 and a2 are tasks of the event loop that runs on thread A, b
\* is code that runs on thread B
Callers == {"a1", "a2", "b"}
Thread(p) == IF p = "b" THEN "B" ELSE "A"
NoThread == "none"
Names == {"None", "renamed"}

\* what fn does when invoked
FnBehaviours == {"ok"} \cup RaisedTypes

SeqsUpTo(S, n) == UNION {[1..k -> S] : k \in 0..n}

Range(s) == {s[i] : i \in DOMAIN s}

\* lists without repetition
Distinct(s) == \A i, j \in DOMAIN s : i # j => s[i] # s[j]

VARIABLES
    storage_state,             \* Storage: the authoritative state tag
    storage_counter,           \* Storage: the failure counter
    state,                     \* self._state: tag of the cached state object
    elapsed,                   \* the clock minus the Open state's entry timestamp
    fail_max,                  \* self._fail_max
    timeout_duration,          \* self._timeout_duration
    excluded_exception_types,  \* self._excluded_exception_types (a list)
    listeners,                 \* self._listeners (a list)
    last,                      \* the last operation: what it was and did
    registered,                \* the listeners in the order they were registered
    streak,                    \* consecutive counted failures since Closed/0
    name,                      \* self._name
    lock_owner,                \* self._lock: the thread that owns it
    lock_count,                \* self._lock: how many times its owner holds it
    pc                         \* where each caller is in its operation

vars == <<storage_state, storage_counter, state, elapsed, fail_max,
          timeout_duration, excluded_exception_types, listeners, last,
          registered, streak, name, lock_owner, lock_count, pc>>

config == <<fail_max, timeout_duration, excluded_exception_types, listeners>>

\* the lock and the callers' positions: untouched by an operation that is
\* taken as a whole
threads == <<name, lock_owner, lock_count, pc>>

\* the counter is bounded: a call that would take it past MaxCounter is not made
MaxCounter == MaxFailMax

\* ---------------------------------------------------------------- errors
NoErr == [src |-> "none", type |-> "none"]
FnErr(t) == [src |-> "fn", type |-> t]
BreakerOpenErr == [src |-> "breaker", type |-> "CircuitBreakerError"]
ListenerErr(l) == [src |-> "listener", type |-> l]
ValueErr == [src |-> "list", type |-> "ValueError"]
StorageErr == [src |-> "storage", type |-> "StorageError"]

\* ---------------------------------------------------------------- events
\* notify: listener l is told of (old, new); cached: self._state goes from
\* old to new, the counter being cnt; storage: the tag new is written to
\* Storage; fn: the wrapped function is invoked
Ev(e, l, old, new, cnt) == [ev |-> e, l |-> l, old |-> old, new |-> new, cnt |-> cnt]
EvNotify(l, old, new) == Ev("notify", l, old, new, 0)
EvCached(old, new, cnt) == Ev("cached", "-", old, new, cnt)
EvStorage(new) == Ev("storage", "-", "-", new, 0)
EvFn == Ev("fn", "-", "-", "-", 0)
\* wrapper: a state's call invokes the decorator's wrapper of the function
EvWrapper == Ev("wrapper", "-", "-", "-", 0)

NotifyCount(trace) == Cardinality({i \in DOMAIN trace : trace[i].ev = "notify"})

\* the machine an operation starts from
Machine(fn, raiseAt) ==
    [st |-> storage_state, cnt |-> storage_counter, cs |-> state,
     el |-> elapsed, err |-> NoErr, trace |-> <<>>, fn |-> fn,
     raiseAt |-> raiseAt, sfail |-> FALSE]

\* the same, with a Storage whose tag write fails (sfail)
FaultyMachine(raiseAt) == [Machine("-", raiseAt) EXCEPT !.sfail = TRUE]

Failed(m) == m.err # NoErr
\* ------------------------------------------------------- Storage (4.3)
\* Storage.incrementCounter()
increment_counter(m) == [m EXCEPT !.cnt = @ + 1]

\* Storage.resetCounter()
reset_counter(m) == [m EXCEPT !.cnt = 0]

\* Storage.setState(tag): a write that fails writes nothing and raises
storage_set_state(m, tag) ==
    IF m.sfail THEN [m EXCEPT !.err = StorageErr]
    ELSE [m EXCEPT !.st = tag, !.trace = Append(@, EvStorage(tag))]

\* ------------------------------------------- Listener notification (4.4)
\* CircuitBreaker.listeners: the registered listeners, as a tuple
listeners_tuple == listeners

\* each registered listener is invoked, in registration order, with
\* (previous tag, new tag); a listener that raises ends the loop and its
\* error propagates
notify_listeners(m, prev, new) ==
    LET k0 == NotifyCount(m.trace)
        ls == listeners_tuple
        n == Len(ls)
        raises == m.raiseAt \in (k0 + 1)..(k0 + n)
        upto == IF raises THEN m.raiseAt - k0 ELSE n
        evs == [i \in 1..upto |-> EvNotify(ls[i], prev, new)]
    IN [m EXCEPT !.trace = @ \o evs,
                 !.err = IF raises THEN ListenerErr(ls[upto]) ELSE @]

\* ------------------------------------------ state constructors (3, 4.1)
\* Closed: entering Closed resets the counter to zero
CircuitClosedState(m, prev_state, notify) ==
    IF notify THEN notify_listeners(reset_counter(m), prev_state, CLOSED) ELSE m

\* Open: records its entry timestamp (see NewElapsed)
CircuitOpenState(m, prev_state, notify) ==
    IF notify THEN notify_listeners(m, prev_state, OPEN) ELSE m

CircuitHalfOpenState(m, prev_state, notify) ==
    IF notify THEN notify_listeners(m, prev_state, HALF_OPEN) ELSE m

\* a state object built now: an Open state's entry timestamp is the clock's
\* reading, so no time has elapsed since; the other states hold no timestamp
NewElapsed(tag) == 0

\* ------------------------------------------------------- the controller
\* a _create_new_state that drops notify=True
create_new_state_quiet(m, new_state, prev_state, notify) ==
    CASE new_state = CLOSED -> CircuitClosedState(m, prev_state, FALSE)
      [] new_state = OPEN -> CircuitOpenState(m, prev_state, FALSE)
      [] new_state = HALF_OPEN -> CircuitHalfOpenState(m, prev_state, FALSE)

\* CircuitBreaker._create_new_state: new_state.value(self, prev_state, notify)
create_new_state(m, new_state, prev_state, notify) ==
    CASE new_state = CLOSED -> CircuitClosedState(m, prev_state, notify)
      [] new_state = OPEN -> CircuitOpenState(m, prev_state, notify)
      [] new_state = HALF_OPEN -> CircuitHalfOpenState(m, prev_state, notify)

\* CircuitBreaker.current_state: Storage's tag
current_state(m) == m.st

\* a setter that swallows what the state's construction raises
state_setter_swallow(m, state_str) ==
    LET r == create_new_state(m, state_str, m.cs, TRUE)
    IN IF Failed(r) THEN [r EXCEPT !.err = NoErr]
       ELSE [r EXCEPT !.cs = state_str, !.el = NewElapsed(state_str),
                      !.trace = Append(@, EvCached(m.cs, state_str, r.cnt))]

\* CircuitBreaker.state (setter): the new state object is built (which
\* notifies the listeners) and only then assigned to self._state
state_setter(m, state_str) ==
    LET r == create_new_state(m, state_str, m.cs, TRUE)
    IN IF Failed(r) THEN r
       ELSE [r EXCEPT !.cs = state_str, !.el = NewElapsed(state_str),
                      !.trace = Append(@, EvCached(m.cs, state_str, r.cnt))]

\* a getter that returns the cached state without looking at Storage
state_getter_stale(m) == m

\* CircuitBreaker.state (getter)
state_getter(m) ==
    IF current_state(m) # m.cs THEN state_setter(m, current_state(m)) ELSE m

\* a transition that forgets Storage
transition_cache_only(m, tag) == state_setter(m, tag)

\* self.state = self._state_storage.state = TAG : Python assigns the
\* targets left to right, the cached state first and Storage second
transition(m, tag) ==
    LET r == state_setter(m, tag)
    IN IF Failed(r) THEN r ELSE storage_set_state(r, tag)

\* CircuitBreaker.open
open(m) == transition(m, OPEN)

\* a half_open() that changes nothing
half_open_noop(m) == m

\* CircuitBreaker.half_open
half_open(m) == transition(m, HALF_OPEN)

\* a close() that writes Storage's tag and leaves the cached state alone
close_storage_only(m) == storage_set_state(m, CLOSED)

\* CircuitBreaker.close
close(m) == transition(m, CLOSED)

\* an is_system_error that matches the exact type only
is_system_error_exact(exception_type) ==
    ~ \E i \in DOMAIN excluded_exception_types :
          exception_type = excluded_exception_types[i]

\* CircuitBreaker.is_system_error
is_system_error(exception_type) ==
    ~ \E i \in DOMAIN excluded_exception_types :
          issubclass(exception_type, excluded_exception_types[i])

\* an _inc_counter that does not count
inc_counter_lost(m) == m

\* CircuitBreaker._inc_counter
inc_counter(m) == increment_counter(m)

\* fn is invoked
invoke(m) == [m EXCEPT !.trace = Append(@, EvFn)]

\* the wrapped function's own error reaches the caller, unless an error
\* raised while accounting for it (a listener's) already propagates
reraise(m) == IF Failed(m) THEN m ELSE [m EXCEPT !.err = FnErr(m.fn)]

\* ------------------------------------------- the variants' call (4.1)
\* Closed: what follows the invocation (c: the machine once fn has run)
ClosedAfter(c) ==
    IF c.fn = "ok" THEN reset_counter(c)
    ELSE IF is_system_error(c.fn)
         THEN LET i == inc_counter(c)
              IN reraise(IF i.cnt >= fail_max THEN open(i) ELSE i)
         ELSE reraise(c)

ClosedCall(m) == ClosedAfter(invoke(m))

\* Half-Open: what follows the invocation
HalfOpenAfter(c) ==
    IF c.fn = "ok" THEN close(reset_counter(c))
    ELSE IF is_system_error(c.fn) THEN reraise(open(c))
         ELSE reraise(c)

HalfOpenCall(m) == HalfOpenAfter(invoke(m))

OpenCall(m) ==
    IF m.el < timeout_duration
    THEN [m EXCEPT !.err = BreakerOpenErr]
    ELSE LET h == half_open(m)
         IN IF Failed(h) THEN h ELSE HalfOpenCall(h)

state_call(m) ==
    CASE m.cs = CLOSED -> ClosedCall(m)
      [] m.cs = OPEN -> OpenCall(m)
      [] m.cs = HALF_OPEN -> HalfOpenCall(m)

\* a call that dispatches on self._state, not on self.state
call_unsynced(m) == state_call(m)

\* CircuitBreaker.call: with self._lock: self.state.call(func)
call(m) ==
    LET g == state_getter(m)
    IN IF Failed(g) THEN g ELSE state_call(g)

\* CircuitBreaker.call_async: with self._lock: await self.state.call_async(func)
call_async(m) ==
    LET g == state_getter(m)
    IN IF Failed(g) THEN g ELSE state_call(g)
\* ------------------------------------------------------- the decorator
\* _inner_wrapper: self.call(func), func being the function it wraps
inner_wrapper(m) == call(m)

\* _inner_wrapper_async: await self.call_async(func)
inner_wrapper_async(m) == call_async(m)

\* what the wrapper did, as the state that invoked it sees it: it returned,
\* or it raised an error of some type
Outcome(r) == IF Failed(r) THEN r.err.type ELSE "ok"

\* what the state (variant: its tag) does once its func has run
after_func(variant, c) ==
    IF variant = CLOSED THEN ClosedAfter(c) ELSE HalfOpenAfter(c)

\* the error of a state's call handed the wrapper: where the state raises
\* again what its func raised, that is the error the wrapper raised (r: the
\* machine as the wrapper left it, x: as the state's accounting left it)
reraise_wrapper(x, fn, r) ==
    [x EXCEPT !.fn = fn,
              !.err = IF @ = FnErr(Outcome(r)) THEN r.err ELSE @]

\* the state accounts for the wrapper's outcome as for any function's
account_wrapper(variant, fn, r) ==
    reraise_wrapper(after_func(variant, [r EXCEPT !.fn = Outcome(r),
                                                  !.err = NoErr]), fn, r)

\* the state that invokes the function: Closed and Half-Open do, Open
\* refuses before its timeout and hands over to Half-Open after it
invoking_state(m) ==
    IF m.cs # OPEN THEN m
    ELSE IF m.el < timeout_duration THEN [m EXCEPT !.err = BreakerOpenErr]
         ELSE half_open(m)

\* the wrapper is about to be invoked by a state's call
invoke_wrapper(m) == [m EXCEPT !.trace = Append(@, EvWrapper)]

\* the state s invokes the wrapper, then accounts for its outcome
wrapper_called(s) ==
    IF Failed(s) THEN s
    ELSE account_wrapper(s.cs, s.fn, inner_wrapper(invoke_wrapper(s)))

wrapper_called_async(s) ==
    IF Failed(s) THEN s
    ELSE account_wrapper(s.cs, s.fn, inner_wrapper_async(invoke_wrapper(s)))

\* self.state.call(wrapper)
state_call_wrapper(m) == wrapper_called(invoking_state(m))

\* await self.state.call_async(wrapper)
state_call_async_wrapper(m) == wrapper_called_async(invoking_state(m))

\* the call's with block once self.state has been read (g)
synced_call_wrapper(g) == IF Failed(g) THEN g ELSE state_call_wrapper(g)

synced_call_async_wrapper(g) ==
    IF Failed(g) THEN g ELSE state_call_async_wrapper(g)

\* a call that does not look at the wrapper's mark
call_decorated_unmarked(m, ignore_on_call) ==
    synced_call_wrapper(state_getter(m))

\* CircuitBreaker.call handed a function the decorator wrapped, marked
\* with _ignore_on_call = ignore_on_call
call_decorated(m, ignore_on_call) ==
    IF ignore_on_call THEN inner_wrapper(m)
    ELSE synced_call_wrapper(state_getter(m))

\* CircuitBreaker.call_async handed a coroutine function the decorator
\* wrapped
call_async_decorated(m, ignore_on_call) ==
    IF ignore_on_call THEN inner_wrapper_async(m)
    ELSE synced_call_async_wrapper(state_getter(m))

\* an add_listener that inserts at the front
add_listener_front(ls, listener) == <<listener>> \o ls

\* CircuitBreaker.add_listener
add_listener(ls, listener) == Append(ls, listener)

\* list.remove: the first occurrence goes
RemoveFirst(s, x) ==
    LET i == CHOOSE k \in DOMAIN s : s[k] = x /\ \A j \in 1..(k - 1) : s[j] # x
    IN [k \in 1..(Len(s) - 1) |-> IF k < i THEN s[k] ELSE s[k + 1]]

\* CircuitBreaker.remove_listener
remove_listener(ls, listener) == RemoveFirst(ls, listener)

\* CircuitBreaker.add_excluded_exception
add_excluded_exception(ex, exception) == Append(ex, exception)

\* CircuitBreaker.remove_excluded_exception
remove_excluded_exception(ex, exception) == RemoveFirst(ex, exception)

\* ------------------------------------------------------------- the ghost
\* what the breaker looked like when the operation started
Pre == [cs |-> state, st |-> storage_state, cnt |-> storage_counter,
        el |-> elapsed, streak |-> streak]

NoPre == [cs |-> "-", st |-> "-", cnt |-> 0, el |-> 0, streak |-> 0]

\* the record of an operation: its name, what fn did, which notification
\* raised, the error that reached the caller, the events, the state before
Did(op, m, pre) ==
    [op |-> op, fn |-> m.fn, raised |-> m.raiseAt, err |-> m.err,
     trace |-> m.trace, pre |-> pre]

Last(op, fn, err, trace) ==
    [op |-> op, fn |-> fn, raised |-> 0, err |-> err, trace |-> trace,
     pre |-> NoPre]

\* the type is, or is a subtype of, an excluded type
UnderExcluded(t) == \E u \in Range(excluded_exception_types) : issubclass(t, u)

\* streak: the number of consecutive call()s whose fn raised a counted error
\* since the breaker was Closed with the counter at 0 (-1: no such run)
Baseline(cs, st, cnt) == IF cs = CLOSED /\ st = CLOSED /\ cnt = 0 THEN 0 ELSE 0 - 1

StreakAfterCall(m) ==
    IF /\ streak >= 0
       /\ streak < fail_max
       /\ m.fn \in RaisedTypes
       /\ ~UnderExcluded(m.fn)
       /\ \E i \in DOMAIN m.trace : m.trace[i].ev = "fn"
    THEN streak + 1
    ELSE Baseline(m.cs, m.st, m.cnt)

\* the operation's writes reach the breaker
Commit(m) ==
    /\ storage_state' = m.st
    /\ storage_counter' = m.cnt
    /\ state' = m.cs
    /\ elapsed' = m.el

\* ----------------------------------------------------------------- Init
\* __init__: the Storage handed in (or a fresh one, Closed with counter 0)
\* gives the first cached state, built without notification
Init ==
    /\ storage_state \in CircuitBreakerState
    /\ storage_counter \in 0..MaxCounter
    /\ state = storage_state
    /\ elapsed = NewElapsed(state)
    /\ fail_max \in 1..MaxFailMax
    /\ timeout_duration \in 1..MaxTimeout
    /\ excluded_exception_types \in SeqsUpTo(ExcludableTypes, MaxExcluded)
    /\ listeners \in {ls \in SeqsUpTo(ListenerIds, MaxListeners) : Distinct(ls)}
    /\ registered = listeners
    /\ last = Last("init", "-", NoErr, <<>>)
    /\ streak = Baseline(state, storage_state, storage_counter)
    /\ name = "None"
    /\ lock_owner = NoThread
    /\ lock_count = 0
    /\ pc = [p \in Callers |-> "idle"]

\* -------------------------------------------------------------- actions
\* which notification of the operation raises: none (0), or one of those
\* the operation makes when none raises (m0: the operation with none raising)
RaiseAts(m0) == 0..NotifyCount(m0.trace)

CallWith(m) ==
    /\ m.cnt <= MaxCounter
    /\ Commit(m)
    /\ last' = Did("call", m, Pre)
    /\ streak' = StreakAfterCall(m)
    /\ UNCHANGED <<config, registered, threads>>

\* call(fn): fn succeeds or raises; a listener may raise when notified
Call ==
    \E fn \in FnBehaviours :
        \E raiseAt \in RaiseAts(call(Machine(fn, 0))) :
            \E m \in {call(Machine(fn, raiseAt))} : CallWith(m)

\* await call_async(fn)
CallAsync ==
    \E fn \in FnBehaviours :
        \E raiseAt \in RaiseAts(call_async(Machine(fn, 0))) :
            \E m \in {call_async(Machine(fn, raiseAt))} : CallWith(m)

Manual(op, m) ==
    /\ Commit(m)
    /\ last' = Did(op, m, Pre)
    /\ streak' = Baseline(m.cs, m.st, m.cnt)
    /\ UNCHANGED <<config, registered, threads>>

\* open()
Open ==
    \E raiseAt \in RaiseAts(open(Machine("-", 0))) :
        \E m \in {open(Machine("-", raiseAt))} : Manual("open", m)

\* half_open()
HalfOpen ==
    \E raiseAt \in RaiseAts(half_open(Machine("-", 0))) :
        \E m \in {half_open(Machine("-", raiseAt))} : Manual("half_open", m)

\* close()
Close ==
    \E raiseAt \in RaiseAts(close(Machine("-", 0))) :
        \E m \in {close(Machine("-", raiseAt))} : Manual("close", m)

\* reading breaker.state
StateAccess ==
    \E raiseAt \in RaiseAts(state_getter(Machine("-", 0))) :
        \E m \in {state_getter(Machine("-", raiseAt))} : Manual("state", m)

\* an operation on the configuration; it leaves the breaker's state alone
Configure(err) ==
    /\ last' = Last("configure", "-", err, <<>>)
    /\ streak' = Baseline(state, storage_state, storage_counter)
    /\ UNCHANGED <<storage_state, storage_counter, state, elapsed, threads>>

AddListener ==
    \E l \in ListenerIds :
        /\ Len(listeners) < MaxListeners
        /\ l \notin Range(listeners)
        /\ listeners' = add_listener(listeners, l)
        /\ registered' = Append(registered, l)
        /\ Configure(NoErr)
        /\ UNCHANGED <<fail_max, timeout_duration, excluded_exception_types>>

RemoveListener ==
    \E l \in ListenerIds :
        /\ IF l \in Range(listeners)
           THEN /\ listeners' = remove_listener(listeners, l)
                /\ registered' = SelectSeq(registered, LAMBDA x : x # l)
                /\ Configure(NoErr)
           ELSE /\ UNCHANGED <<listeners, registered>>
                /\ Configure(ValueErr)
        /\ UNCHANGED <<fail_max, timeout_duration, excluded_exception_types>>

AddExcludedException ==
    \E t \in ExcludableTypes :
        /\ Len(excluded_exception_types) < MaxExcluded
        /\ excluded_exception_types' = add_excluded_exception(excluded_exception_types, t)
        /\ Configure(NoErr)
        /\ UNCHANGED <<fail_max, timeout_duration, listeners, registered>>

RemoveExcludedException ==
    \E t \in ExcludableTypes :
        /\ IF t \in Range(excluded_exception_types)
           THEN /\ excluded_exception_types' =
                       remove_excluded_exception(excluded_exception_types, t)
                /\ Configure(NoErr)
           ELSE /\ UNCHANGED excluded_exception_types
                /\ Configure(ValueErr)
        /\ UNCHANGED <<fail_max, timeout_duration, listeners, registered>>

\* fail_max = number
SetFailMax ==
    \E number \in 1..MaxFailMax :
        /\ fail_max' = number
        /\ Configure(NoErr)
        /\ UNCHANGED <<timeout_duration, excluded_exception_types, listeners, registered>>

\* timeout_duration = timeout
SetTimeoutDuration ==
    \E timeout \in 1..MaxTimeout :
        /\ timeout_duration' = timeout
        /\ Configure(NoErr)
        /\ UNCHANGED <<fail_max, excluded_exception_types, listeners, registered>>

\* another actor (a sibling breaker on the same Storage) writes the tag
ExternalWrite ==
    \E tag \in CircuitBreakerState :
        /\ tag # storage_state
        /\ storage_state' = tag
        /\ last' = Last("external", "-", NoErr, <<>>)
        /\ streak' = 0 - 1
        /\ UNCHANGED <<storage_counter, state, elapsed, config, registered, threads>>

\* time passes; only the Open state reads the clock, and past the longest
\* timeout every reading is alike
Tick ==
    /\ state = OPEN
    /\ elapsed < MaxTimeout
    /\ elapsed' = elapsed + 1
    /\ last' = Last("tick", "-", NoErr, <<>>)
    /\ UNCHANGED <<storage_state, storage_counter, state, config, registered, streak, threads>>

Next ==
    \/ Call
    \/ CallAsync
    \/ Open
    \/ HalfOpen
    \/ Close
    \/ StateAccess
    \/ AddListener
    \/ RemoveListener
    \/ AddExcludedException
    \/ RemoveExcludedException
    \/ SetFailMax
    \/ SetTimeoutDuration
    \/ ExternalWrite
    \/ Tick

Spec == Init /\ [][Next]_vars

\* -------------------------------------------------- a Storage that fails
\* open(), half_open() or close() when Storage's tag write fails
manual(op, m) == CASE op = "open" -> open(m)
                   [] op = "half_open" -> half_open(m)
                   [] op = "close" -> close(m)

StorageFault ==
    \E op \in {"open", "half_open", "close"} :
        \E raiseAt \in RaiseAts(manual(op, Machine("-", 0))) :
            \E m \in {manual(op, FaultyMachine(raiseAt))} : Manual(op, m)

NextFault == Next \/ StorageFault

\* -------------------------------------------- decorated functions, called
DecoratedWith(op, ignore_on_call, m) ==
    /\ m.cnt <= MaxCounter
    /\ Commit(m)
    /\ last' = [Did(op, m, Pre) EXCEPT
                   !.op = IF ignore_on_call THEN "call_marked" ELSE "call_unmarked"]
    /\ streak' = Baseline(m.cs, m.st, m.cnt)
    /\ UNCHANGED <<config, registered, threads>>

\* call(wrapped), wrapped = breaker(fn) or breaker(ignore_on_call=False)(fn)
CallDecorated ==
    \E fn \in FnBehaviours, ignore_on_call \in BOOLEAN :
        \E raiseAt \in RaiseAts(call_decorated(Machine(fn, 0), ignore_on_call)) :
            \E m \in {call_decorated(Machine(fn, raiseAt), ignore_on_call)} :
                DecoratedWith("call", ignore_on_call, m)

\* await call_async(wrapped)
CallAsyncDecorated ==
    \E fn \in FnBehaviours, ignore_on_call \in BOOLEAN :
        \E raiseAt \in RaiseAts(call_async_decorated(Machine(fn, 0), ignore_on_call)) :
            \E m \in {call_async_decorated(Machine(fn, raiseAt), ignore_on_call)} :
                DecoratedWith("call_async", ignore_on_call, m)

NextDecorated ==
    \/ CallDecorated
    \/ CallAsyncDecorated
    \/ ExternalWrite
    \/ Tick

\* one listener is enough for a transition to be announced and aborted
InitDecorated == Init /\ listeners \in {<<>>, <<"L1">>}

SpecDecorated == InitDecorated /\ [][NextDecorated]_vars

SpecFault == Init /\ [][NextFault]_vars

\* ====================================================== callers in parallel
\* The operations above, taken step by step by callers that run at once:
\* b on thread B (call, open, half_open, close), a1 and a2 as tasks of the
\* event loop of thread A (call_async; a1 also reads breaker.state).
\* A caller's position (pc):
\*   idle        outside the breaker
\*   wait        in call / call_async, at `with self._lock`
\*   locked      inside the with block, about to evaluate self.state
\*   store_trial in half_open() called by the Open state, self._state
\*               assigned, Storage's tag not yet written
\*   fn_closed, fn_half_open   func is running (awaited, for a task) under
\*               the Closed / the Half-Open state's call
\*   store_open, store_close   in open() / close() called by the state after
\*               func, self._state assigned, Storage's tag not yet written
\*   m_open, m_half_open, m_close   the same in a direct open() /
\*               half_open() / close()
\*   read2       in the state getter, drift seen, about to read
\*               self.current_state again
\*   adopt_<tag> in the state getter, about to call the setter with <tag>
\*   add_wait    in add_listener, at `with self._lock`

\* ------------------------------------------------------------- the lock
\* a non-reentrant lock: its owner blocks on it too
CanAcquire_plain(t) == lock_owner = NoThread

\* a lock that never blocks
CanAcquire_never_blocks(t) == TRUE

\* threading.RLock: acquire() blocks unless the lock is free or the calling
\* thread owns it
CanAcquire(t) == lock_owner \in {NoThread, t}

\* with self._lock: (entry)
Acquire(t) ==
    /\ CanAcquire(t)
    /\ lock_owner' = t
    /\ lock_count' = lock_count + 1

Release ==
    /\ lock_count' = lock_count - 1
    /\ lock_owner' = IF lock_count = 1 THEN NoThread ELSE lock_owner

\* a with block that keeps the lock when its body raises
WithExit_leak(how) ==
    IF how = "return" THEN Release ELSE UNCHANGED <<lock_owner, lock_count>>

\* with self._lock: (exit) the lock is released however the body ends:
\* "return", "raise" (an error propagates), "cancel" (the awaited call is
\* cancelled)
WithExit(how) == Release

\* a with block entered by the thread t inside a step: the step cannot be
\* taken while t would block
Reenter(t) == CanAcquire(t)

\* a list mutator that does not take the lock
ListMutatorEnters_unlocked(t) == TRUE

\* add_listener, remove_listener, add_excluded_exception,
\* remove_excluded_exception: with self._lock:
ListMutatorEnters(t) == CanAcquire(t)

\* --------------------------------------------------------- scheduling
\* positions at which a task has handed control back to its event loop
Suspended == {"idle", "fn_closed", "fn_half_open"}

\* a task runs only while the other tasks of its thread are suspended
Runnable(p) ==
    \A q \in Callers \ {p} : Thread(q) = Thread(p) => pc[q] \in Suspended

\* positions inside a with block of call, call_async, open, half_open, close
InCall == {"locked", "store_trial", "fn_closed", "fn_half_open",
           "store_open", "store_close"}
InManual == {"m_open", "m_half_open", "m_close"}
Holding == InCall \cup InManual

\* the tag whose write to Storage is pending at a position
PendingTag(at) ==
    CASE at \in {"store_trial", "m_half_open"} -> HALF_OPEN
      [] at \in {"store_open", "m_open"} -> OPEN
      [] at \in {"store_close", "m_close"} -> CLOSED

AdoptAt(tag) ==
    CASE tag = CLOSED -> "adopt_closed"
      [] tag = OPEN -> "adopt_open"
      [] tag = HALF_OPEN -> "adopt_half_open"

AdoptTag(at) ==
    CASE at = "adopt_closed" -> CLOSED
      [] at = "adopt_open" -> OPEN
      [] at = "adopt_half_open" -> HALF_OPEN

Goto(p, at) == pc' = [pc EXCEPT ![p] = at]

\* what the parallel callers leave alone
Aside == <<registered, streak>>

\* the part of m written so far reaches the breaker: everything but
\* Storage's tag, which a transition writes in a step of its own
Write(m) ==
    /\ m.cnt <= MaxCounter
    /\ storage_counter' = m.cnt
    /\ state' = m.cs
    /\ elapsed' = m.el
    /\ UNCHANGED storage_state

\* a with block is left and the operation ends; how it ended is recorded
Leave(p, how) ==
    /\ WithExit(how)
    /\ Goto(p, "idle")
    /\ last' = Last(how, "-", NoErr, <<>>)

\* ------------------------------------------------- call and call_async
\* call(func) / call_async(func) is entered, func a plain function
StartCall(p) ==
    /\ pc[p] = "idle"
    /\ Runnable(p)
    /\ Goto(p, "wait")
    /\ UNCHANGED <<storage_state, storage_counter, state, elapsed, config,
                   name, lock_owner, lock_count, last, Aside>>

\* with self._lock:
EnterCall(p) ==
    /\ pc[p] = "wait"
    /\ Runnable(p)
    /\ Acquire(Thread(p))
    /\ Goto(p, "locked")
    /\ UNCHANGED <<storage_state, storage_counter, state, elapsed, config,
                   name, last, Aside>>

\* self.state, then the state's call as far as the invocation of func
Dispatched(raiseAt) ==
    LET g == state_getter(Machine("-", raiseAt))
    IN IF Failed(g) \/ g.cs # OPEN THEN g
       ELSE IF g.el < timeout_duration THEN [g EXCEPT !.err = BreakerOpenErr]
       ELSE state_setter(g, HALF_OPEN)

\* the Open state, its timeout over, makes the call a trial
Trial(g) == ~Failed(g) /\ g.cs = OPEN /\ g.el >= timeout_duration

Dispatch(p) ==
    /\ pc[p] = "locked"
    /\ Runnable(p)
    /\ \E raiseAt \in RaiseAts(Dispatched(0)) :
           \E g \in {state_getter(Machine("-", raiseAt))} :
               \E m \in {Dispatched(raiseAt)} :
                   /\ state # storage_state \/ Trial(g) => Reenter(Thread(p))
                   /\ Write(m)
                   /\ IF Failed(m) THEN Leave(p, "raise")
                      ELSE /\ UNCHANGED <<lock_owner, lock_count, last>>
                           /\ Goto(p, IF Trial(g) THEN "store_trial"
                                      ELSE IF m.cs = CLOSED THEN "fn_closed"
                                      ELSE "fn_half_open")
    /\ UNCHANGED <<config, name, Aside>>

\* self._state_storage.state = TAG, the second target of the assignment;
\* half_open() called by the Open state returns to the trial, open() and
\* close() called after func end the call (open(): func's error is raised
\* again), a direct open() / half_open() / close() returns
Store(p) ==
    /\ pc[p] \in {"store_trial", "store_open", "store_close"} \cup InManual
    /\ Runnable(p)
    /\ storage_state' = PendingTag(pc[p])
    /\ IF pc[p] = "store_trial"
       THEN Goto(p, "fn_half_open") /\ UNCHANGED <<lock_owner, lock_count, last>>
       ELSE Leave(p, IF pc[p] = "store_open" THEN "raise" ELSE "return")
    /\ UNCHANGED <<storage_counter, state, elapsed, config, name, Aside>>

\* what the state's call does once func has returned or raised
Accounted(at, fn, raiseAt) ==
    IF at = "fn_closed" THEN ClosedAfter(Machine(fn, raiseAt))
    ELSE HalfOpenAfter(Machine(fn, raiseAt))

\* a transition of m went as far as its Storage write
Wrote(m) == \E i \in DOMAIN m.trace : m.trace[i].ev = "storage"

\* callback: the listener L1, while it is notified, registers the listener
\* L2 with breaker.add_listener (L2 is told of later transitions only: the
\* loop runs over a copy of the list)
After(p, fn, how, callback) ==
    /\ pc[p] \in {"fn_closed", "fn_half_open"}
    /\ Runnable(p)
    /\ \E raiseAt \in RaiseAts(Accounted(pc[p], fn, 0)) :
           \E m \in {Accounted(pc[p], fn, raiseAt)} :
               /\ m.trace # <<>> => Reenter(Thread(p))
               /\ Write(m)
               /\ IF Wrote(m)
                  THEN /\ UNCHANGED <<lock_owner, lock_count, last>>
                       /\ Goto(p, IF m.st = OPEN THEN "store_open" ELSE "store_close")
                  ELSE Leave(p, IF Failed(m) THEN how ELSE "return")
               /\ IF callback
                  THEN /\ NotifyCount(m.trace) > 0
                       /\ m.raiseAt = 0
                       /\ ListMutatorEnters(Thread(p))
                       /\ listeners = <<"L1">>
                       /\ listeners' = add_listener(listeners, "L2")
                  ELSE UNCHANGED listeners
    /\ registered' = listeners'
    /\ UNCHANGED <<fail_max, timeout_duration, excluded_exception_types,
                   name, streak>>

\* func returns, or raises an error that counts
Return(p) == \E fn \in {"ok", "SysError"} : After(p, fn, "raise", FALSE)

\* the same, a listener calling back into the breaker
ReturnCallback(p) == \E fn \in {"ok", "SysError"} : After(p, fn, "raise", TRUE)

\* the task awaiting func is cancelled: CancelledError is raised at the
\* await and takes the failure path
Cancel(p) == Thread(p) = "A" /\ After(p, "CancelledError", "cancel", FALSE)

\* ------------------------------------------- open, half_open, close
\* with self._lock: self.state = <tag>, the first target of the assignment
StartManual(p, tag) ==
    /\ pc[p] = "idle"
    /\ Runnable(p)
    /\ \E raiseAt \in RaiseAts(state_setter(Machine("-", 0), tag)) :
           \E m \in {state_setter(Machine("-", raiseAt), tag)} :
               /\ Write(m)
               /\ IF Failed(m)
                  THEN /\ CanAcquire(Thread(p))
                       /\ UNCHANGED <<lock_owner, lock_count, pc>>
                  ELSE /\ Acquire(Thread(p))
                       /\ Goto(p, CASE tag = OPEN -> "m_open"
                                    [] tag = HALF_OPEN -> "m_half_open"
                                    [] tag = CLOSED -> "m_close")
    /\ UNCHANGED <<config, name, last, Aside>>

ManualOpen(p) == StartManual(p, OPEN)
ManualHalfOpen(p) == StartManual(p, HALF_OPEN)
ManualClose(p) == StartManual(p, CLOSED)

\* ------------------------------------------------- the state getter
\* if self.current_state != self._state.state: (read without the lock)
GetterCompare(p) ==
    /\ pc[p] = "idle"
    /\ Runnable(p)
    /\ current_state(Machine("-", 0)) # state
    /\ Goto(p, "read2")
    /\ UNCHANGED <<storage_state, storage_counter, state, elapsed, config,
                   name, lock_owner, lock_count, last, Aside>>

\* self.state = self.current_state: the right-hand side is evaluated
GetterRead(p) ==
    /\ pc[p] = "read2"
    /\ Runnable(p)
    /\ Goto(p, AdoptAt(current_state(Machine("-", 0))))
    /\ UNCHANGED <<storage_state, storage_counter, state, elapsed, config,
                   name, lock_owner, lock_count, last, Aside>>

\* ... and the setter is called with it: with self._lock: self._state = ...
GetterAdopt(p) ==
    /\ pc[p] \in {"adopt_closed", "adopt_open", "adopt_half_open"}
    /\ Runnable(p)
    /\ CanAcquire(Thread(p))
    /\ \E raiseAt \in RaiseAts(state_setter(Machine("-", 0), AdoptTag(pc[p]))) :
           \E m \in {state_setter(Machine("-", raiseAt), AdoptTag(pc[p]))} :
               Write(m)
    /\ Goto(p, "idle")
    /\ UNCHANGED <<config, name, lock_owner, lock_count, last, Aside>>

\* ------------------------------------------------------------- the clock
Clock ==
    /\ state = OPEN
    /\ elapsed < timeout_duration
    /\ elapsed' = elapsed + 1
    /\ UNCHANGED <<storage_state, storage_counter, state, config, threads, last, Aside>>

\* --------------------------------------------------- the specification
\* a breaker with at most one listener, no excluded type, timeout 1
InitThreads ==
    /\ Init
    /\ listeners \in {<<>>, <<"L1">>}
    /\ excluded_exception_types = <<>>
    /\ timeout_duration = 1

NextThreads ==
    \/ \E p \in Callers : StartCall(p)
    \/ \E p \in Callers : EnterCall(p)
    \/ \E p \in Callers : Dispatch(p)
    \/ \E p \in Callers : Store(p)
    \/ \E p \in Callers : Return(p)
    \/ \E p \in Callers : Cancel(p)
    \/ ManualOpen("b")
    \/ ManualHalfOpen("b")
    \/ ManualClose("b")
    \/ \E p \in {"a1", "b"} : GetterCompare(p)
    \/ \E p \in Callers : GetterRead(p)
    \/ \E p \in Callers : GetterAdopt(p)
    \/ Clock

SpecThreads == InitThreads /\ [][NextThreads]_vars

\* -------------------------------------------------------- the mutators
\* the methods that change a list, named by a caller's position when it is
\* at their `with self._lock`
ListMutators == {"add_listener", "remove_listener",
                 "add_excluded_exception", "remove_excluded_exception"}

\* one of the list mutators is called (with the listener L1, the type
\* BizError)
StartMutator(p, method) ==
    /\ pc[p] = "idle"
    /\ Runnable(p)
    /\ method = "add_listener" => Len(listeners) < MaxListeners
    /\ method = "add_excluded_exception" =>
           Len(excluded_exception_types) < MaxExcluded
    /\ Goto(p, method)
    /\ UNCHANGED <<storage_state, storage_counter, state, elapsed, config,
                   name, lock_owner, lock_count, last, Aside>>

\* the list after the method's body; list.remove of an absent element
\* raises ValueError and leaves the list as it is
Mutated(method, ls, x) ==
    CASE method \in {"add_listener", "add_excluded_exception"} ->
             IF method = "add_listener" THEN add_listener(ls, x)
             ELSE add_excluded_exception(ls, x)
      [] method \in {"remove_listener", "remove_excluded_exception"} ->
             IF x \notin Range(ls) THEN ls
             ELSE IF method = "remove_listener" THEN remove_listener(ls, x)
             ELSE remove_excluded_exception(ls, x)

\* the lock is taken, the list is changed, the lock is released
Mutate(p) ==
    /\ pc[p] \in ListMutators
    /\ Runnable(p)
    /\ ListMutatorEnters(Thread(p))
    /\ IF pc[p] \in {"add_listener", "remove_listener"}
       THEN /\ listeners' = Mutated(pc[p], listeners, "L1")
            /\ UNCHANGED excluded_exception_types
       ELSE /\ excluded_exception_types' =
                   Mutated(pc[p], excluded_exception_types, "BizError")
            /\ UNCHANGED listeners
    /\ registered' = listeners'
    /\ Goto(p, "idle")
    /\ UNCHANGED <<storage_state, storage_counter, state, elapsed, fail_max,
                   timeout_duration, name, lock_owner, lock_count, last, streak>>

\* breaker.fail_max = number: self._fail_max = number, no lock taken
SetFailMaxNow(p) ==
    /\ pc[p] = "idle"
    /\ Runnable(p)
    /\ \E number \in (1..MaxFailMax) \ {fail_max} : fail_max' = number
    /\ UNCHANGED <<storage_state, storage_counter, state, elapsed,
                   timeout_duration, excluded_exception_types, listeners,
                   threads, last, Aside>>

\* breaker.timeout_duration = timeout: no lock taken
SetTimeoutDurationNow(p) ==
    /\ pc[p] = "idle"
    /\ Runnable(p)
    /\ \E timeout \in (1..MaxTimeout) \ {timeout_duration} :
           timeout_duration' = timeout
    /\ UNCHANGED <<storage_state, storage_counter, state, elapsed, fail_max,
                   excluded_exception_types, listeners, threads, last, Aside>>

\* breaker.name = name: no lock taken
SetName(p) ==
    /\ pc[p] = "idle"
    /\ Runnable(p)
    /\ \E n \in Names \ {name} : name' = n
    /\ UNCHANGED <<storage_state, storage_counter, state, elapsed, config,
                   lock_owner, lock_count, pc, last, Aside>>

\* a1 calls through the breaker while b changes its configuration
NextMutators ==
    \/ StartCall("a1")
    \/ EnterCall("a1")
    \/ Dispatch("a1")
    \/ Store("a1")
    \/ Return("a1")
    \/ \E method \in ListMutators : StartMutator("b", method)
    \/ Mutate("b")
    \/ SetFailMaxNow("b")
    \/ SetTimeoutDurationNow("b")
    \/ SetName("b")
    \/ Clock

SpecMutators == InitThreads /\ [][NextMutators]_vars

\* ------------------------------------------------------ fair scheduling
\* the steps by which a caller that is inside an operation goes on
Progress(p) ==
    \/ EnterCall(p)
    \/ Dispatch(p)
    \/ Store(p)
    \/ Return(p)
    \/ GetterRead(p)
    \/ GetterAdopt(p)

NextFair ==
    \/ \E p \in Callers : StartCall(p)
    \/ \E p \in Callers : EnterCall(p)
    \/ \E p \in Callers : Dispatch(p)
    \/ \E p \in Callers : Store(p)
    \/ \E p \in Callers : Return(p)
    \/ \E p \in Callers : ReturnCallback(p)
    \/ \E p \in Callers : Cancel(p)
    \/ ManualOpen("b")
    \/ ManualHalfOpen("b")
    \/ ManualClose("b")
    \/ \E p \in {"a1", "b"} : GetterCompare(p)
    \/ \E p \in Callers : GetterRead(p)
    \/ \E p \in Callers : GetterAdopt(p)
    \/ Clock

\* func and the listeners terminate, the lock and the event loop are fair:
\* a caller whose next step is possible again and again takes it
Fairness == \A p \in Callers : SF_vars(Progress(p))

SpecFair == InitThreads /\ [][NextFair]_vars /\ Fairness

\* ============================================================== claims
\* the last operation, read from its record
IsCall == last.op = "call"
Tr == last.trace
FnIdx == {i \in DOMAIN Tr : Tr[i].ev = "fn"}
FnCalls == Cardinality(FnIdx)
\* fn raised an error that counts (its type is under no excluded type)
FnCounted == last.fn \in RaisedTypes /\ ~UnderExcluded(last.fn)
\* fn raised an excluded error
FnExcluded == last.fn \in RaisedTypes /\ UnderExcluded(last.fn)
ListenerRaised == last.err.src = "listener"
BothTags(tag) == state = tag /\ storage_state = tag
WasBoth(tag) == last.pre.cs = tag /\ last.pre.st = tag
\* the breaker is as it was before the operation
Untouched ==
    /\ state = last.pre.cs
    /\ storage_state = last.pre.st
    /\ storage_counter = last.pre.cnt
    /\ elapsed = last.pre.el

\* ------------------------------------------------------------------ C1
\* the Nth consecutive counted failure since Closed/0 has just been made
NthFailure == IsCall /\ streak = fail_max

\* a successful call after fewer than N consecutive counted failures
SuccessBelowThreshold ==
    /\ IsCall
    /\ last.fn = "ok"
    /\ last.pre.streak \in 0..(fail_max - 1)

SuccessKeepsClosed ==
    SuccessBelowThreshold => BothTags(CLOSED) /\ storage_counter = 0

CallWhileOpen == IsCall /\ WasBoth(OPEN)
BeforeTimeout == last.pre.el < timeout_duration

\* rejected: the breaker-open error, fn not invoked, nothing changed
Rejected ==
    /\ last.err = BreakerOpenErr
    /\ Tr = <<>>
    /\ Untouched

\* the breaker went Open -> Half-Open (cached state, then Storage) and fn
\* was then invoked, once
TrialAfterHalfOpen ==
    \E i \in DOMAIN Tr :
        /\ Tr[i] = EvCached(OPEN, HALF_OPEN, last.pre.cnt)
        /\ i + 2 \in DOMAIN Tr
        /\ Tr[i + 1] = EvStorage(HALF_OPEN)
        /\ FnIdx = {i + 2}

CallWhileHalfOpen == IsCall /\ WasBoth(HALF_OPEN)

ExcludedFailure == IsCall /\ FnExcluded /\ FnCalls = 1 /\ last.pre.cs = last.pre.st

\* C4 as stated: from Closed (any counter), Half-Open and Open after the
\* timeout alike, an excluded error leaves counter and state tag as they
\* were and reaches the caller unchanged.
C4_ExclusionTransparencyAsStated ==
    ExcludedFailure =>
        /\ last.err = FnErr(last.fn)
        /\ storage_counter = last.pre.cnt
        /\ state = last.pre.cs
        /\ storage_state = last.pre.st

\* C4 (amended): from Closed (any counter) and from Half-Open, an excluded
\* error leaves counter and state tag as they were; from Open after the
\* timeout the call has moved the breaker to Half-Open before invoking fn,
\* and the excluded error leaves it Half-Open with the counter as it was.
\* In every case the error reaches the caller unchanged.
C4_ExclusionTransparency ==
    ExcludedFailure =>
        /\ last.err = FnErr(last.fn)
        /\ storage_counter = last.pre.cnt
        /\ last.pre.cs \in {CLOSED, HALF_OPEN} =>
               state = last.pre.cs /\ storage_state = last.pre.st
        /\ last.pre.cs = OPEN =>
               BothTags(HALF_OPEN) /\ last.pre.el >= timeout_duration

C4_Witness ==
    /\ ExcludedFailure
    /\ last.fn = "SubBizError"
    /\ last.pre.cs = CLOSED
    /\ last.pre.cnt > 0
    /\ storage_counter = last.pre.cnt
    /\ BothTags(CLOSED)

\* ------------------------------------------------------------------ C5
FnErrorDelivered ==
    /\ last.err = FnErr(last.fn)
    /\ last.fn \in RaisedTypes
    /\ FnCalls = 1

BreakerOpenDelivered ==
    /\ last.err = BreakerOpenErr
    /\ FnCalls = 0
    /\ BothTags(OPEN)
    /\ elapsed < timeout_duration

\* the error of the listener notified last
ListenerErrorDelivered ==
    /\ Tr # <<>>
    /\ Tr[Len(Tr)].ev = "notify"
    /\ last.err = ListenerErr(Tr[Len(Tr)].l)

IsManual == last.op \in {"open", "half_open", "close"}
ManualTag == CASE last.op = "open" -> OPEN
               [] last.op = "half_open" -> HALF_OPEN
               [] last.op = "close" -> CLOSED
               [] OTHER -> "-"

\* a call made with the two tags agreeing is handled by that state's rules:
\* Closed and Half-Open invoke fn at once, Open rejects before the timeout
\* and otherwise starts by going Half-Open
DispatchByState ==
    IsCall /\ last.pre.cs = last.pre.st =>
        CASE last.pre.cs = CLOSED -> Tr # <<>> /\ Tr[1] = EvFn /\ FnCalls = 1
          [] last.pre.cs = HALF_OPEN -> Tr # <<>> /\ Tr[1] = EvFn /\ FnCalls = 1
          [] last.pre.cs = OPEN ->
                IF BeforeTimeout THEN Rejected
                ELSE /\ Tr # <<>>
                     /\ Tr[1].old = OPEN
                     /\ Tr[1].new = HALF_OPEN

\* C6: open(), half_open() and close(), from any state, counter and elapsed
\* time, return with Storage's tag and the cached tag both at their state
\* (an Open state entered now, a Closed state with the counter at 0), and a
\* call made from there is handled by that state's rules.
C6_ManualOverride ==
    /\ IsManual /\ ~Failed(last) =>
           /\ BothTags(ManualTag)
           /\ last.op = "open" => elapsed = 0
           /\ last.op = "close" => storage_counter = 0
    /\ DispatchByState

C6_Witness ==
    /\ last.op = "close"
    /\ ~Failed(last)
    /\ WasBoth(OPEN)
    /\ last.pre.el < timeout_duration
    /\ last.pre.cnt > 0
    /\ BothTags(CLOSED)

\* ------------------------------------------------------------------ C7
EntersClosed(i) == Tr[i].ev = "cached" /\ Tr[i].new = CLOSED

\* C7: whenever the cached state becomes Closed (close(), a successful
\* trial, an adopted Closed tag) the counter is 0 right after, whatever it
\* was before.
C7_CounterResetOnClosed ==
    /\ \A i \in DOMAIN Tr : EntersClosed(i) => Tr[i].cnt = 0
    /\ last.op \in {"close", "state"} /\ (\E i \in DOMAIN Tr : EntersClosed(i)) =>
           storage_counter = 0

\* an adopted Closed tag, the counter not 0 before
C7_Witness ==
    /\ last.op = "state"
    /\ last.pre.cnt > 0
    /\ \E i \in DOMAIN Tr : EntersClosed(i)
    /\ state = CLOSED
    /\ storage_counter = 0

\* ------------------------------------------------------------------ C8
\* an access (the state accessor or a call) finding Storage's tag changed
Drift == last.op \in {"state", "call"} /\ last.pre.cs # last.pre.st

DriftNotes ==
    {i \in DOMAIN Tr : /\ Tr[i].ev = "notify"
                       /\ Tr[i].old = last.pre.cs
                       /\ Tr[i].new = last.pre.st}

\* every listener is told once of (old cached tag, Storage's tag) and the
\* cached state takes Storage's tag
Adopted ==
    LET n == Len(listeners)
    IN /\ Len(Tr) >= n + 1
       /\ \A j \in 1..n : Tr[j] = EvNotify(listeners[j], last.pre.cs, last.pre.st)
       /\ Tr[n + 1].ev = "cached"
       /\ Tr[n + 1].old = last.pre.cs
       /\ Tr[n + 1].new = last.pre.st
       /\ DriftNotes = 1..n
       /\ last.op = "state" => Len(Tr) = n + 1 /\ BothTags(last.pre.st)

\* with Storage's tag unchanged an access adopts nothing: the accessor does
\* nothing, and a call's transitions are its own (each written to Storage)
NoDriftQuiet ==
    /\ last.op = "state" /\ last.pre.cs = last.pre.st =>
           Tr = <<>> /\ Untouched /\ ~Failed(last)
    /\ IsCall /\ last.pre.cs = last.pre.st =>
           \A i \in DOMAIN Tr :
               Tr[i].ev = "cached" =>
                   i + 1 \in DOMAIN Tr /\ Tr[i + 1] = EvStorage(Tr[i].new)

Transitions == {i \in DOMAIN Tr : Tr[i].ev = "cached"}

\* the transition at i was announced to every registered listener, in
\* registration order, with its (previous, new) tags, right before it
Announced(i) ==
    LET n == Len(registered)
    IN /\ i > n
       /\ \A j \in 1..n :
              Tr[i - n + j - 1] = EvNotify(registered[j], Tr[i].old, Tr[i].new)

\* the transitions of an operation chain from the cached tag before it to
\* the cached tag after it
Chained ==
    /\ \A i \in Transitions :
           Tr[i].old = IF \E k \in Transitions : k < i
                       THEN Tr[CHOOSE k \in Transitions :
                                   k < i /\ \A k2 \in Transitions : k2 < i => k2 <= k].new
                       ELSE last.pre.cs
    /\ Transitions # {} =>
           state = Tr[CHOOSE k \in Transitions : \A k2 \in Transitions : k2 <= k].new

\* C9: every transition (from a call's outcome, manual, adopted drift) is
\* announced within the operation that makes it to every registered
\* listener, in registration order, with the previous and the new state.
C9_ListenerNotification ==
    /\ \A i \in Transitions : Announced(i)
    /\ last.op \in {"call", "open", "half_open", "close", "state"} => Chained
    /\ IsManual /\ ~Failed(last) => Transitions # {}

C9_Witness ==
    /\ IsCall
    /\ registered = <<"L2", "L1">>
    /\ \E i \in Transitions : Tr[i].old = CLOSED /\ Tr[i].new = OPEN
    /\ last.err = FnErr(last.fn)

Notifications == {i \in DOMAIN Tr : Tr[i].ev = "notify"}

\* the tag a listener is told about is in Storage when it is told
WrittenBefore(i) ==
    \E j \in 1..(i - 1) : Tr[j].ev = "storage" /\ Tr[j].new = Tr[i].new

\* C18 as stated: in open(), half_open() and close() the new tag is written
\* to Storage before the listeners are notified, so a listener reading the
\* Storage tag during its notification observes the new tag.
C18_WriteBeforeNotify ==
    IsManual => \A i \in Notifications : WrittenBefore(i)

\* ----------------------------------------------------------------- C17
\* C17 as stated: if a Storage operation fails during a controller
\* operation (the tag write of open(), half_open(), close()), the error
\* propagates, the counter, the Storage tag and the cached tag are as they
\* were before the operation, and no listener has been notified.
C17_StorageFailureUnmodified ==
    IsManual /\ last.err.src = "storage" =>
        /\ last.err = StorageErr
        /\ Untouched
        /\ Notifications = {}

\* ----------------------------------------------------------------- C13
\* a function wrapped by the decorator with the default marking
\* (_ignore_on_call = True) was passed to call() or call_async()
CallMarked == last.op = "call_marked"
WrapperCalls == Cardinality({i \in DOMAIN Tr : Tr[i].ev = "wrapper"})

\* the call did not get to the function: the breaker was Open, or a
\* listener raised before the function was reached
NotReached == last.err = BreakerOpenErr \/ ListenerRaised

\* C13: a decorated function (default marking) passed to call() or
\* call_async() runs the underlying function once and is accounted for
\* once: no state's call is handed the wrapper, the function is invoked by
\* one state's call (by none if the breaker rejects the call), and the
\* counter moves by at most one.
C13_AtMostOnceAccounting ==
    CallMarked =>
        /\ WrapperCalls = 0
        /\ FnCalls <= 1
        /\ FnCalls = 0 => NotReached
        /\ storage_counter <= last.pre.cnt + 1
        /\ FnCounted /\ FnCalls = 1 /\ WasBoth(CLOSED) =>
               storage_counter = last.pre.cnt + 1

C13_Witness ==
    /\ CallMarked
    /\ FnCounted
    /\ FnCalls = 1
    /\ WasBoth(CLOSED)
    /\ last.pre.cnt = 0
    /\ storage_counter = 1
    /\ fail_max = MaxFailMax
    /\ BothTags(CLOSED)

\* ----------------------------------------------------------------- C11
FnRunning == {"fn_closed", "fn_half_open"}
OtherThread(p, q) == Thread(p) # Thread(q)

\* q takes a step of its call / call_async
CallStep(q) == pc[q] \in {"wait"} \cup InCall /\ pc'[q] # pc[q]

\* C11: while a caller is between acquiring the lock in call() and
\* returning (func's execution included), no caller on another thread is
\* inside the with block of its call, so none has its func running ...
NoOverlapAcrossThreads ==
    \A p, q \in Callers :
        OtherThread(p, q) /\ pc[p] \in InCall => pc[q] \notin Holding

\* ... and no step of another thread's call changes the counter or the state
NoForeignChange ==
    \A p, q \in Callers :
        OtherThread(p, q) /\ pc[p] \in InCall /\ CallStep(q) =>
            UNCHANGED <<storage_counter, storage_state, state>>

C11_SerializationAcrossThreads ==
    []NoOverlapAcrossThreads /\ [][NoForeignChange]_vars

\* b waits at the lock while the function a1 called is running
C11_Witness ==
    /\ pc["a1"] \in FnRunning
    /\ pc["b"] = "wait"
    /\ lock_owner = "A"
    /\ lock_count = 1

\* ----------------------------------------------------------------- C12
Inside == {p \in Callers : pc[p] \in Holding}

\* C12: however call() / call_async() ends (return, error, cancellation)
\* its hold on the lock is given back: the lock is held exactly once per
\* caller still inside a with block, by that caller's thread, and is free
\* when there is none, so no finished call holds it.
C12_LockReleasedOnEveryExit ==
    /\ lock_count = Cardinality(Inside)
    /\ \A p \in Inside : lock_owner = Thread(p)
    /\ Inside = {} => lock_owner = NoThread

\* a cancelled call_async has ended and the lock is free
C12_Witness ==
    /\ last.op = "cancel"
    /\ Inside = {}
    /\ lock_count = 0
    /\ lock_owner = NoThread

\* ----------------------------------------------------------------- C14
\* C14 as stated: for two call_async() of tasks of one thread, while one
\* task's func is suspended at an await inside call_async(), no other
\* task's func is executing through the breaker.
C14_SerializationAcrossTasks ==
    \A p, q \in Callers :
        p # q /\ ~OtherThread(p, q) => ~(pc[p] \in FnRunning /\ pc[q] \in FnRunning)

\* ----------------------------------------------------------------- C16
\* p's getter calls the setter with the tag it read, and the setter assigns
Adopts(p) ==
    /\ pc[p] \in {"adopt_closed", "adopt_open", "adopt_half_open"}
    /\ pc'[p] = "idle"
    /\ state' = AdoptTag(pc[p])

\* C16 as stated: the tag the state accessor adopts is Storage's tag at
\* the moment of adoption (it is read again under the lock), so a read
\* concurrent with another thread's open() / half_open() / close() never
\* takes the cached state back to the earlier tag.
C16_RevalidationUnderLock ==
    [][\A p \in Callers : Adopts(p) => state' = storage_state']_vars

\* ----------------------------------------------------------------- C19
Quiescent == lock_owner = NoThread /\ \A p \in Callers : pc[p] = "idle"

\* C19 as stated: with no external writer and no Storage failure, whenever
\* no controller operation is in progress (the lock is free) the cached
\* tag equals Storage's tag.
C19_CachedAgreesWithStorage ==
    Quiescent => state = storage_state

\* ----------------------------------------------------------------- C15
\* q takes the step of a list mutator that changes the list
MutatorStep(q) == pc[q] \in ListMutators /\ pc'[q] = "idle"

\* while p is inside call(), what changes is changed by p's own thread
OnlyByHolder(changed) ==
    \A p \in Callers :
        pc[p] \in InCall /\ changed =>
            \E q \in Callers : ~OtherThread(p, q) /\ MutatorStep(q)

ListsChange ==
    \/ listeners' # listeners
    \/ excluded_exception_types' # excluded_exception_types

ScalarsChange ==
    \/ fail_max' # fail_max
    \/ timeout_duration' # timeout_duration
    \/ name' # name

\* C15 as stated: every mutator (threshold, timeout, exclusion list,
\* listener list, name) takes effect only while the mutating thread holds
\* the lock: while another thread is inside call(), none of these changes.
C15_LockProtectedMutationAsStated ==
    [][OnlyByHolder(ListsChange \/ ScalarsChange)]_vars

\* C15 (amended): the mutators of the exclusion list and of the listener
\* list take effect only while the mutating thread holds the lock, so
\* neither list changes while another thread is inside call(); the setters
\* of the threshold, the timeout and the name take no lock.
C15_LockProtectedMutation ==
    [][/\ OnlyByHolder(ListsChange)
       /\ \A q \in Callers : MutatorStep(q) => lock_owner \in {NoThread, Thread(q)}
      ]_vars

\* b is held at add_listener's lock while the function a1 called runs
C15_Witness ==
    /\ pc["b"] = "add_listener"
    /\ pc["a1"] \in FnRunning
    /\ lock_owner = "A"
    /\ listeners = <<>>

\* ----------------------------------------------------------------- C20
\* a caller inside a with block would not block on the lock
HolderNeverBlocks == \A p \in Inside : CanAcquire(Thread(p))

\* C20: an operation that needs the lock and is invoked by the thread that
\* holds it (a transition made inside call(), the trial after the Open
\* timeout, a listener calling add_listener while notified) acquires it
\* without blocking; so, func and the listeners terminating and scheduling
\* being fair, every call() / call_async() that was entered returns or
\* raises.
C20_DeadlockFreedom ==
    /\ []HolderNeverBlocks
    /\ \A p \in Callers : (pc[p] \in {"wait"} \cup InCall) ~> (pc[p] = "idle")
====
